---- MODULE Spec2Model ----
(***************************************************************************)
(* runepub: download -> unpack -> build_epub -> zip_epub (src/runepub.py). *)
(*                                                                         *)
(* Text is modelled as a sequence of symbols.  A symbol is one character   *)
(* ("<", ">", "/", "|", "#", "-", " ", a digit) or a word whose inside the *)
(* program never looks into ("chapter", "index", "t", "x").  A line is a   *)
(* sequence of symbols, a file is a sequence of lines.                     *)
(***************************************************************************)
EXTENDS Integers, Sequences, FiniteSets, Bags, TLC

(***************************************************************************)
(* Bounds of the model.                                                    *)
(***************************************************************************)
MaxRuns == 3
MaxArticleLines == 3
MaxPageLines == 4
MaxEntries == 2
MaxPage == 3

(***************************************************************************)
(* str methods used by the program.                                        *)
(***************************************************************************)
Digit == <<"0", "1", "2", "3", "4", "5", "6", "7", "8", "9">>

IsDigit(c) == \E d \in 1..10 : Digit[d] = c

DigitVal(c) == (CHOOSE d \in 1..10 : Digit[d] = c) - 1

\* x in s, for a one-symbol x
Has(s, c) == \E k \in 1..Len(s) : s[k] = c

\* sub in s
Contains(s, sub) ==
    \E k \in 1..(Len(s) - Len(sub) + 1) : SubSeq(s, k, k + Len(sub) - 1) = sub

\* s.count(c)
Count(s, c) == Cardinality({k \in 1..Len(s) : s[k] = c})

\* s.replace(c, "")
Replace(s, c) == SelectSeq(s, LAMBDA x : x # c)

\* index of the first c in s, Len(s) + 1 when there is none
Find(s, c) ==
    IF Has(s, c) THEN CHOOSE k \in 1..Len(s) : s[k] = c /\ \A j \in 1..(k - 1) : s[j] # c
    ELSE Len(s) + 1

RECURSIVE LStrip(_)
LStrip(s) == IF s # <<>> /\ Head(s) = " " THEN LStrip(Tail(s)) ELSE s

RECURSIVE RStrip(_)
RStrip(s) ==
    IF s # <<>> /\ s[Len(s)] = " " THEN RStrip(SubSeq(s, 1, Len(s) - 1)) ELSE s

\* s.strip()
Strip(s) == RStrip(LStrip(s))

\* s.split(c, n): at most n splits, n + 1 parts
RECURSIVE Split(_, _, _)
Split(s, c, n) ==
    IF n = 0 \/ ~Has(s, c) THEN <<s>>
    ELSE <<SubSeq(s, 1, Find(s, c) - 1)>>
         \o Split(SubSeq(s, Find(s, c) + 1, Len(s)), c, n - 1)

\* s.split(c)
SplitAll(s, c) == Split(s, c, Len(s))

\* s.split(): on runs of whitespace, no empty parts
SplitWs(s) == SelectSeq(SplitAll(s, " "), LAMBDA p : p # <<>>)

\* int(s) succeeds; s holds no whitespace here (it is a part of s.split())
IsInt(s) == s # <<>> /\ \A k \in 1..Len(s) : IsDigit(s[k])

RECURSIVE IntOf(_)
IntOf(s) == IF s = <<>> THEN 0 ELSE 10 * IntOf(SubSeq(s, 1, Len(s) - 1)) + DigitVal(s[Len(s)])

RECURSIVE Decimal(_)
Decimal(n) == IF n < 10 THEN <<Digit[n + 1]>> ELSE Decimal(n \div 10) \o <<Digit[(n % 10) + 1]>>

RECURSIVE ZeroPad(_, _)
ZeroPad(s, w) == IF Len(s) >= w THEN s ELSE ZeroPad(<<"0">> \o s, w)

\* "{0:04d}".format(n), n >= 0
Format04d(n) == ZeroPad(Decimal(n), 4)

RECURSIVE Concat(_)
Concat(ss) == IF ss = <<>> THEN <<>> ELSE Head(ss) \o Concat(Tail(ss))

SeqsUpTo(S, n) == UNION {[1..k -> S] : k \in 0..n}

Map(f(_), s) == [k \in 1..Len(s) |-> f(s[k])]

(***************************************************************************)
(* Paths.  os.path.join puts a "/" between its parts.                      *)
(***************************************************************************)
RUNEDIR == <<"~/.runepub">>

bookname == <<"book">>

author == <<"author">>

RECURSIVE PathJoin(_)
PathJoin(parts) ==
    IF Len(parts) = 1 THEN parts[1] ELSE parts[1] \o <<"/">> \o PathJoin(Tail(parts))

_get_build_dir == PathJoin(<<RUNEDIR, bookname, <<"build">>>>)

(***************************************************************************)
(* Files.  A directory tree is the set of its files, [path, content]; an   *)
(* optional file is <<>> (absent) or <<content>>.                          *)
(***************************************************************************)
\* open(path, "wt") and the writes up to the close: the file is replaced
WriteFile(fs, path, lines) ==
    {f \in fs : f.path # path} \cup {[path |-> path, content |-> lines]}

\* further writes to a file that is open for writing
AppendFile(fs, path, lines) ==
    {IF f.path = path THEN [path |-> path, content |-> f.content \o lines] ELSE f : f \in fs}

FileAt(fs, path) == CHOOSE f \in fs : f.path = path

Exists(fs, path) == \E f \in fs : f.path = path

EmptyDir == [Metadata |-> <<>>, Articles |-> <<>>, Pages |-> {}]

(***************************************************************************)
(* RuneChapter, EPubChapter                                                *)
(***************************************************************************)
RuneChapter(type, index, title, ranges) ==
    [type |-> type, index |-> index, title |-> title, ranges |-> ranges]

EPubChapter(type, index, title) == [type |-> type, index |-> index, title |-> title]

EPubChapter_id(chapter) == <<"chapter">> \o Format04d(chapter.index)

EPubChapter_filename(chapter) == EPubChapter_id(chapter) \o <<".xhtml">>

ChapterPath(chapter) ==
    PathJoin(<<_get_build_dir, <<"OEBPS">>, EPubChapter_filename(chapter)>>)

(***************************************************************************)
(* EpubWriter                                                              *)
(***************************************************************************)
MimetypePath == PathJoin(<<_get_build_dir, <<"mimetype">>>>)

ContainerPath == PathJoin(<<_get_build_dir, <<"META-INF">>, <<"container.xml">>>>)

OpfPath == PathJoin(<<_get_build_dir, <<"OEBPS">>, <<"book.opf">>>>)

NcxPath == PathJoin(<<_get_build_dir, <<"OEBPS">>, <<"book.ncx">>>>)

MimetypeContent == <<<<"application/epub+zip">>>>

ContainerContent ==
    << <<"<?xml version=1.0 encoding=utf-8?>">>,
       <<"<container version=1.0 xmlns=urn:oasis:names:tc:opendocument:xmlns:container>">>,
       <<"<rootfiles>">>,
       <<"<rootfile full-path=OEBPS/book.opf media-type=application/oebps-package+xml/>">>,
       <<"</rootfiles>">>,
       <<"</container>">> >>

OpfHead(title) ==
    << <<"<?xml version=1.0 encoding=utf-8?>">>,
       <<"<package version=2.0 xmlns=http://www.idpf.org/2007/opf">>,
       <<"unique-identifier=abcdef>">>,
       <<"<metadata xmlns:dc=http://purl.org/dc/elements/1.1/">>,
       <<"xmlns:opf=http://www.idpf.org/2007/opf>">>,
       <<"<dc:title>">> \o title \o <<"</dc:title>">>,
       <<"<dc:creator opf:role=aut>">> \o author \o <<"</dc:creator>">>,
       <<"<dc:language>en-US</dc:language>">>,
       <<"<dc:identifier id=abcdef>abcdef</dc:identifier>">>,
       <<"</metadata>">>,
       <<"<manifest>">> >>

NcxHead(title) ==
    << <<"<?xml version=1.0 encoding=utf-8?>">>,
       <<"<ncx version=2005-1 xml:lang=en xmlns=http://www.daisy.org/z3986/2005/ncx/>">>,
       <<"<head>">>,
       <<"<meta name=dtb:uid content=abcdef />">>,
       <<"<meta name=dtb:depth content=1 />">>,
       <<"<meta name=dtb:totalPageCount content=0 />">>,
       <<"<meta name=dtb:maxPageNumber content=0 />">>,
       <<"</head>">>,
       <<"<docTitle>">>,
       <<"<text>">> \o title \o <<"</text>">>,
       <<"</docTitle>">> >>

\* EpubWriter.__init__: the files it writes into the fresh build directory
EpubWriter_init(title) ==
    { [path |-> MimetypePath, content |-> MimetypeContent],
      [path |-> ContainerPath, content |-> ContainerContent],
      [path |-> OpfPath, content |-> OpfHead(title)],
      [path |-> NcxPath, content |-> NcxHead(title)] }

add_chapter(chs, chapter) == Append(chs, chapter)

ItemLine(chapter) ==
    <<"<item id=">> \o EPubChapter_id(chapter) \o <<" href=">>
        \o EPubChapter_filename(chapter) \o <<" media-type=application/xhtml+xml />">>

ItemrefLine(chapter) == <<"<itemref idref=">> \o EPubChapter_id(chapter) \o <<" />">>

NavPoint(chapter) ==
    << <<"<navPoint id=">> \o EPubChapter_id(chapter) \o <<" playOrder=">>
           \o Decimal(chapter.index) \o <<">">>,
       <<"<navLabel><text>">> \o chapter.title \o <<"</text></navLabel>">>,
       <<"<content src=">> \o EPubChapter_filename(chapter) \o <<"/>">>,
       <<"</navPoint>">> >>

\* a spine that leaves out the chapter added last
OpfTail_short_spine(chs) ==
    Map(ItemLine, chs)
    \o << <<"<item id=", "ncx", " href=", "book.ncx", " media-type=application/x-dtbncx+xml />">>,
          <<"</manifest>">>,
          <<"<spine toc=ncx>">> >>
    \o Map(ItemrefLine, SubSeq(chs, 1, Len(chs) - 1))
    \o << <<"</spine>">>, <<"</package>">> >>

\* EpubWriter.__exit__: what it appends to book.opf
OpfTail(chs) ==
    Map(ItemLine, chs)
    \o << <<"<item id=", "ncx", " href=", "book.ncx", " media-type=application/x-dtbncx+xml />">>,
          <<"</manifest>">>,
          <<"<spine toc=ncx>">> >>
    \o Map(ItemrefLine, chs)
    \o << <<"</spine>">>, <<"</package>">> >>

\* EpubWriter.__exit__: what it appends to book.ncx
NcxTail(chs) ==
    << <<"<navMap>">> >> \o Concat(Map(NavPoint, chs)) \o << <<"</navMap>">>, <<"</ncx>">> >>

(***************************************************************************)
(* _parse_unpacked_metadata and metadata["TITLE"]                          *)
(***************************************************************************)
MetadataPairs(lines) ==
    LET kv(l) == Map(Strip, Split(Strip(l), ":", 1))
    IN  Map(kv, SelectSeq(lines, LAMBDA l : Has(Strip(l), ":")))

\* the values of key TITLE in file order; the dict keeps the last one
TitleValues(lines) ==
    LET hit == SelectSeq(MetadataPairs(lines), LAMBDA p : p[1] = <<"TITLE">>)
    IN  [k \in 1..Len(hit) |-> hit[k][2]]

(***************************************************************************)
(* _parse_unpacked_rune_chapters, one line of Articles.lst                 *)
(***************************************************************************)
\* the list a range entry becomes; <<>> when int() raises ValueError
ParseEntry(entry) ==
    IF Has(entry, "-")
    THEN IF \A k \in 1..Len(SplitAll(entry, "-")) : IsInt(SplitAll(entry, "-")[k])
         THEN Map(IntOf, SplitAll(entry, "-"))
         ELSE <<>>
    ELSE IF IsInt(entry) THEN <<IntOf(entry), IntOf(entry)>> ELSE <<>>

ParseRanges(rangeexpr) == Map(ParseEntry, SplitWs(rangeexpr))

\* an index that counts every line of the file, the skipped ones too
ChapterIndex_counts_lines(i_, line_no_) == line_no_ - 1

\* the index given to the chapter of the line being parsed
ChapterIndex(i_, line_no_) == i_

\* [kind |-> "skip"] | [kind |-> "raise", exc] | [kind |-> "chapter", chapter]
ParseArticle(raw, i_, line_no_) ==
    LET line == Strip(SplitAll(raw, "#")[1])
        parts == Map(Strip, Split(line, "|", 2))
        skip == [kind |-> "skip", exc |-> "none", chapter |-> <<>>]
        raise(e) == [kind |-> "raise", exc |-> e, chapter |-> <<>>]
    IN  IF line = <<>> THEN skip
        ELSE IF ~Has(line, "|") THEN skip
        ELSE IF Len(parts) # 3 THEN raise("ValueError")
        ELSE IF parts[1] = <<"-">> THEN skip
        ELSE IF parts[1] \notin {<<>>, <<"index">>} THEN raise("Exception")
        ELSE IF \E k \in 1..Len(ParseRanges(parts[3])) : ParseRanges(parts[3])[k] = <<>>
        THEN raise("ValueError")
        ELSE [kind |-> "chapter", exc |-> "none",
              chapter |-> <<RuneChapter(IF parts[1] = <<>> THEN "REGULAR" ELSE "INDEX",
                                        ChapterIndex(i_, line_no_), parts[2],
                                        ParseRanges(parts[3]))>>]

(***************************************************************************)
(* _unpacked_range_reader                                                  *)
(***************************************************************************)
\* range(r[0], r[1]): the upper end left out
RangeStop_exclusive(r) == r[2]

\* the stop of range(r[0], r[1] + 1)
RangeStop(r) == r[2] + 1

PageName(n) == Format04d(n) \o <<".txt">>

\* the position of the two nested for loops: the first page at or after
\* (ri, idx); ri = Len(ranges) + 1 when the loops are over
RECURSIVE Seek(_, _, _)
Seek(ranges, ri, idx) ==
    IF ri > Len(ranges) THEN [r_i |-> ri, index |-> 0]
    ELSE IF idx < RangeStop(ranges[ri]) THEN [r_i |-> ri, index |-> idx]
    ELSE IF ri = Len(ranges) THEN [r_i |-> ri + 1, index |-> 0]
    ELSE Seek(ranges, ri + 1, ranges[ri + 1][1])

ReaderStart(ranges) ==
    IF ranges = <<>> THEN [r_i |-> 1, index |-> 0] ELSE Seek(ranges, 1, ranges[1][1])

(***************************************************************************)
(* build_epub, the body of the loop over the lines of a chapter            *)
(***************************************************************************)
OpenTag == <<"<", "chapter">>

CloseTag == <<"<", "/", "chapter", ">">>

\* only "<" removed
Normalise_keeps_gt(line) ==
    IF Count(line, "<") # Count(line, ">") THEN Replace(line, "<") ELSE line

\* lines 368-370
Normalise(line) ==
    IF Count(line, "<") # Count(line, ">") THEN Replace(Replace(line, "<"), ">") ELSE line

\* "if" where the program has "elif": a closing tag on the opening line counts
ScopeNext_if(st, line) ==
    LET s1 == IF st = "BEFORE" /\ Contains(line, OpenTag) THEN "WITHIN" ELSE st
    IN  IF s1 = "WITHIN" /\ Contains(line, CloseTag) THEN "AFTER" ELSE s1

\* lines 373-379: ScopeState after the line
ScopeNext(st, line) ==
    IF st = "BEFORE" THEN (IF Contains(line, OpenTag) THEN "WITHIN" ELSE st)
    ELSE IF st = "WITHIN" THEN (IF Contains(line, CloseTag) THEN "AFTER" ELSE st)
    ELSE st

\* lines 375, 381-383: buff after the line
BuffNext(st, b, line) ==
    LET b0 == IF st = "BEFORE" /\ ScopeNext(st, line) = "WITHIN" THEN <<>> ELSE b
    IN  IF ScopeNext(st, line) # "AFTER" /\ ~Contains(line, OpenTag) /\ ~Contains(line, CloseTag)
        THEN Append(b0, line)
        ELSE b0

XhtmlHead ==
    << <<"<?xml version=1.0 encoding=utf-8?>">>,
       <<"<!DOCTYPE html PUBLIC -//W3C//DTD XHTML 1.1//EN http://www.w3.org/TR/xhtml11/DTD/xhtml11.dtd>">>,
       <<"<html xmlns=http://www.w3.org/1999/xhtml xml:lang=en>">>,
       <<"<head>">>,
       <<"<meta http-equiv=Content-Type content=application/xhtml+xml; charset=utf-8 />">>,
       <<"</head>">>,
       <<>>,
       <<"<body>">> >>

XhtmlTail == << <<"</body>">>, <<"</html>">> >>

(***************************************************************************)
(* zip_epub                                                                *)
(***************************************************************************)
\* mode='a': the entries of the archive on disk are kept
ZipOpen_append(old) == IF old = <<>> THEN EmptyBag ELSE old[1]

\* ZipFile(zip_outfile, mode='w'): the entries the archive starts with
ZipOpen(old) == EmptyBag

\* ZipFile.write(filename, arcname): leading separators of arcname are dropped
RECURSIVE ArcName(_)
ArcName(name) == IF name # <<>> /\ Head(name) = "/" THEN ArcName(Tail(name)) ELSE name

\* file_path[build_dir_str_len:]
ZipEntry(f) ==
    [name |-> ArcName(SubSeq(f.path, Len(_get_build_dir) + 1, Len(f.path))),
     content |-> f.content]


(***************************************************************************)
(* State                                                                   *)
(***************************************************************************)
VARIABLES
    pc,             \* where main is: the stage about to be called, or inside build_epub
    run,            \* the number of this run of main
    stages,         \* the stages called in this run, in call order
    returned,       \* the stages that returned normally in this run
    exc,            \* the exception in flight, "none" when there is none
    served,         \* the archive the server holds for the book
    status,         \* status code of this run's response, 0 before any
    requests,       \* HTTP requests made in this run
    temp_dir,       \* temp/ exists
    temp_zip,       \* temp/txt.zip
    downloaded_zip, \* downloaded/txt.zip
    unpacked,       \* unpacked/
    build,          \* the files under build/
    epub,           \* ./<id>.epub: the bag of its entries
    writer,         \* the EpubWriter context: "none", "open", "exited"
    chapters,       \* EpubWriter.chapters
    line_no,        \* _parse_unpacked_rune_chapters: the line of Articles.lst to read
    values,         \* _parse_unpacked_rune_chapters: values
    i,              \* _parse_unpacked_rune_chapters: i
    rune_chapters,  \* build_epub: rune_chapters
    ci,             \* build_epub: position of the loop over rune_chapters
    state,          \* build_epub: ScopeState
    buff,           \* build_epub: buff
    r_i,            \* _unpacked_range_reader: position of the loop over ranges
    index,          \* _unpacked_range_reader: index
    page_open,      \* _unpacked_range_reader: a page file is open
    page_pos,       \* _unpacked_range_reader: the line of the page to read
    readLog         \* the page files opened for the chapter being written, in order

mainVars == <<run, stages, returned>>
netVars == <<served, status, requests>>
cacheVars == <<temp_dir, temp_zip, downloaded_zip>>
parseVars == <<line_no, values, i>>
loopVars == <<rune_chapters, ci>>
scanVars == <<state, buff>>
readerVars == <<r_i, index, page_open, page_pos, readLog>>

vars == <<pc, exc, mainVars, netVars, cacheVars, unpacked, build, epub, writer, chapters,
          parseVars, loopVars, scanVars, readerVars>>

StageOrder == <<"download", "unpack", "build_epub", "zip_epub">>

\* a main that goes on to the next stage whatever the stage did
AfterStage_goes_on(stage, e) ==
    IF stage = "download" THEN "unpack"
    ELSE IF stage = "unpack" THEN "build_epub"
    ELSE IF stage = "build_epub" THEN "zip_epub"
    ELSE "done"

\* main, lines 425-430: where main goes when a stage ends with exception e
AfterStage(stage, e) ==
    IF e # "none" THEN "raised"
    ELSE IF stage = "download" THEN "unpack"
    ELSE IF stage = "unpack" THEN "build_epub"
    ELSE IF stage = "build_epub" THEN "zip_epub"
    ELSE "done"

Returned(stage, e) == IF e = "none" THEN returned \cup {stage} ELSE returned

\* the locals of build_epub and of the functions it calls, before it runs
BuildLocalsInit ==
    /\ writer = "none" /\ chapters = <<>>
    /\ line_no = 1 /\ values = <<>> /\ i = 0
    /\ rune_chapters = <<>> /\ ci = 1
    /\ state = "BEFORE" /\ buff = <<>>
    /\ r_i = 1 /\ index = 0 /\ page_open = FALSE /\ page_pos = 1 /\ readLog = <<>>

(***************************************************************************)
(* download                                                                *)
(***************************************************************************)
\* lines 101-104: os.rmdir(temp_dir) removes the directory when it is empty
Rmdir(dir, zip) == IF zip = <<>> THEN FALSE ELSE dir

\* outcome: what the network does when asked
download ==
    /\ pc = "download"
    /\ stages' = Append(stages, "download")
    /\ IF downloaded_zip # <<>>
       THEN /\ temp_dir' = Rmdir(temp_dir, temp_zip)
            /\ exc' = "none"
            /\ UNCHANGED <<temp_zip, downloaded_zip, status, requests>>
       ELSE \E outcome \in {"ConnectionError", "200", "200 aborted", "404", "500"} :
            /\ requests' = requests + 1
            /\ CASE outcome = "ConnectionError" ->
                      /\ exc' = "ConnectionError"
                      /\ temp_dir' = TRUE
                      /\ UNCHANGED <<temp_zip, downloaded_zip, status>>
                 [] outcome = "200 aborted" ->
                      /\ status' = 200
                      /\ exc' = "ProtocolError"
                      /\ temp_dir' = TRUE
                      /\ temp_zip' = <<[body |-> served, complete |-> FALSE]>>
                      /\ UNCHANGED downloaded_zip
                 [] outcome = "200" ->
                      /\ status' = 200
                      /\ exc' = "none"
                      /\ downloaded_zip' = <<[body |-> served, complete |-> TRUE]>>
                      /\ temp_zip' = <<>>
                      /\ temp_dir' = Rmdir(TRUE, <<>>)
                 [] OTHER ->
                      /\ status' = IF outcome = "404" THEN 404 ELSE 500
                      /\ IF temp_zip = <<>>
                         THEN /\ exc' = "FileNotFoundError"
                              /\ temp_dir' = TRUE
                              /\ UNCHANGED <<temp_zip, downloaded_zip>>
                         ELSE /\ exc' = "none"
                              /\ downloaded_zip' = temp_zip
                              /\ temp_zip' = <<>>
                              /\ temp_dir' = Rmdir(TRUE, <<>>)
    /\ returned' = Returned("download", exc')
    /\ pc' = AfterStage("download", exc')
    /\ UNCHANGED <<run, served, unpacked, build, epub, writer, chapters,
                   parseVars, loopVars, scanVars, readerVars>>

(***************************************************************************)
(* unpack                                                                  *)
(***************************************************************************)
unpack ==
    /\ pc = "unpack"
    /\ stages' = Append(stages, "unpack")
    /\ IF downloaded_zip = <<>>
       THEN exc' = "FileNotFoundError" /\ unpacked' = <<EmptyDir>>
       ELSE IF ~downloaded_zip[1].complete
       THEN exc' = "BadZipFile" /\ unpacked' = <<EmptyDir>>
       ELSE exc' = "none" /\ unpacked' = <<downloaded_zip[1].body>>
    /\ returned' = Returned("unpack", exc')
    /\ pc' = AfterStage("unpack", exc')
    /\ UNCHANGED <<run, netVars, cacheVars, build, epub, writer, chapters,
                   parseVars, loopVars, scanVars, readerVars>>

(***************************************************************************)
(* build_epub                                                              *)
(***************************************************************************)
Dir == unpacked[1]

rune_chapter == rune_chapters[ci]

epub_chapter == EPubChapter(rune_chapter.type, rune_chapter.index, rune_chapter.title)

Page == {p \in Dir.Pages : p.name = PageName(index)}

PageLines == (CHOOSE p \in Page : TRUE).lines

\* lines 329-340: up to the opening of Articles.lst
build_epub ==
    /\ pc = "build_epub"
    /\ stages' = Append(stages, "build_epub")
    /\ IF Dir.Metadata = <<>> \/ TitleValues(Dir.Metadata[1]) = <<>>
       THEN /\ exc' = IF Dir.Metadata = <<>> THEN "FileNotFoundError" ELSE "KeyError"
            /\ build' = {}
            /\ pc' = AfterStage("build_epub", exc')
            /\ UNCHANGED <<writer, chapters>>
       ELSE /\ build' = EpubWriter_init(TitleValues(Dir.Metadata[1])[Len(TitleValues(Dir.Metadata[1]))])
            /\ writer' = "open"
            /\ chapters' = <<>>
            /\ exc' = IF Dir.Articles = <<>> THEN "FileNotFoundError" ELSE "none"
            /\ pc' = IF Dir.Articles = <<>> THEN "exit" ELSE "parse"
    /\ line_no' = 1 /\ values' = <<>> /\ i' = 0
    /\ UNCHANGED <<run, returned, netVars, cacheVars, unpacked, epub,
                   loopVars, scanVars, readerVars>>

\* lines 282-311: one turn of the loop over the lines of Articles.lst
ParseLine ==
    /\ pc = "parse"
    /\ line_no <= Len(Dir.Articles[1])
    /\ LET p == ParseArticle(Dir.Articles[1][line_no], i, line_no)
       IN  /\ values' = IF p.kind = "chapter" THEN values \o p.chapter ELSE values
           /\ i' = IF p.kind = "chapter" THEN i + 1 ELSE i
           /\ exc' = p.exc
           /\ pc' = IF p.kind = "raise" THEN "exit" ELSE "parse"
    /\ line_no' = line_no + 1
    /\ UNCHANGED <<mainVars, netVars, cacheVars, unpacked, build, epub, writer, chapters,
                   loopVars, scanVars, readerVars>>

\* line 313, line 340
ParseReturn ==
    /\ pc = "parse"
    /\ line_no > Len(Dir.Articles[1])
    /\ rune_chapters' = values
    /\ ci' = 1
    /\ pc' = "chapters"
    /\ UNCHANGED <<exc, mainVars, netVars, cacheVars, unpacked, build, epub, writer, chapters,
                   parseVars, scanVars, readerVars>>

\* lines 343-367: the chapter file is opened and its head written
ChapterOpen ==
    /\ pc = "chapters"
    /\ ci <= Len(rune_chapters)
    /\ build' = WriteFile(build, ChapterPath(epub_chapter), XhtmlHead)
    /\ buff' = <<>>
    /\ state' = "BEFORE"
    /\ r_i' = ReaderStart(rune_chapter.ranges).r_i
    /\ index' = ReaderStart(rune_chapter.ranges).index
    /\ page_open' = FALSE
    /\ page_pos' = 1
    /\ readLog' = <<>>
    /\ pc' = "read"
    /\ UNCHANGED <<exc, mainVars, netVars, cacheVars, unpacked, epub, writer, chapters,
                   parseVars, loopVars>>

\* lines 321-322
OpenPage ==
    /\ pc = "read"
    /\ ~page_open
    /\ r_i <= Len(rune_chapter.ranges)
    /\ readLog' = Append(readLog, PageName(index))
    /\ IF Page = {}
       THEN exc' = "FileNotFoundError" /\ pc' = "exit" /\ UNCHANGED <<page_open, page_pos>>
       ELSE page_open' = TRUE /\ page_pos' = 1 /\ UNCHANGED <<exc, pc>>
    /\ UNCHANGED <<mainVars, netVars, cacheVars, unpacked, build, epub, writer, chapters,
                   parseVars, loopVars, scanVars, r_i, index>>

\* lines 323-325 and 367-385: one line is read, stripped and handled
ProcessLine ==
    /\ pc = "read"
    /\ page_open
    /\ page_pos <= Len(PageLines)
    /\ LET line == Normalise(Strip(PageLines[page_pos]))
       IN  IF rune_chapter.type = "REGULAR"
           THEN /\ state' = ScopeNext(state, line)
                /\ buff' = BuffNext(state, buff, line)
                /\ UNCHANGED build
           ELSE /\ build' = AppendFile(build, ChapterPath(epub_chapter), <<line>>)
                /\ UNCHANGED <<state, buff>>
    /\ page_pos' = page_pos + 1
    /\ UNCHANGED <<pc, exc, mainVars, netVars, cacheVars, unpacked, epub, writer, chapters,
                   parseVars, loopVars, r_i, index, page_open, readLog>>

\* lines 319-323: the page is exhausted, the loops move on
ClosePage ==
    /\ pc = "read"
    /\ page_open
    /\ page_pos > Len(PageLines)
    /\ page_open' = FALSE
    /\ r_i' = Seek(rune_chapter.ranges, r_i, index + 1).r_i
    /\ index' = Seek(rune_chapter.ranges, r_i, index + 1).index
    /\ UNCHANGED <<pc, exc, mainVars, netVars, cacheVars, unpacked, build, epub, writer, chapters,
                   parseVars, loopVars, scanVars, page_pos, readLog>>

\* lines 387-394: the reader is exhausted
ChapterClose ==
    /\ pc = "read"
    /\ ~page_open
    /\ r_i > Len(rune_chapter.ranges)
    /\ build' = AppendFile(build, ChapterPath(epub_chapter), buff \o XhtmlTail)
    /\ chapters' = add_chapter(chapters, epub_chapter)
    /\ ci' = ci + 1
    /\ pc' = "chapters"
    /\ UNCHANGED <<exc, mainVars, netVars, cacheVars, unpacked, epub, writer,
                   parseVars, rune_chapters, scanVars, readerVars>>

\* EpubWriter.__exit__, lines 230-256, then build_epub returns or raises
EpubWriter_exit ==
    /\ \/ pc = "exit"
       \/ pc = "chapters" /\ ci > Len(rune_chapters)
    /\ build' = AppendFile(AppendFile(build, OpfPath, OpfTail(chapters)),
                           NcxPath, NcxTail(chapters))
    /\ writer' = "exited"
    /\ returned' = Returned("build_epub", exc)
    /\ pc' = AfterStage("build_epub", exc)
    /\ UNCHANGED <<exc, run, stages, netVars, cacheVars, unpacked, epub, chapters,
                   parseVars, loopVars, scanVars, readerVars>>

(***************************************************************************)
(* zip_epub                                                                *)
(***************************************************************************)
zip_epub ==
    /\ pc = "zip_epub"
    /\ stages' = Append(stages, "zip_epub")
    /\ epub' = <<ZipOpen(epub) (+) SetToBag({ZipEntry(f) : f \in build})>>
    /\ exc' = "none"
    /\ returned' = Returned("zip_epub", exc')
    /\ pc' = AfterStage("zip_epub", exc')
    /\ UNCHANGED <<run, netVars, cacheVars, unpacked, build, writer, chapters,
                   parseVars, loopVars, scanVars, readerVars>>

(***************************************************************************)
(* main is run again, on the files the earlier runs left                   *)
(***************************************************************************)
main ==
    /\ pc \in {"done", "raised"}
    /\ run < MaxRuns
    /\ run' = run + 1
    /\ pc' = "download"
    /\ stages' = <<>> /\ returned' = {} /\ exc' = "none"
    /\ status' = 0 /\ requests' = 0
    /\ writer' = "none" /\ chapters' = <<>>
    /\ line_no' = 1 /\ values' = <<>> /\ i' = 0
    /\ rune_chapters' = <<>> /\ ci' = 1
    /\ state' = "BEFORE" /\ buff' = <<>>
    /\ r_i' = 1 /\ index' = 0 /\ page_open' = FALSE /\ page_pos' = 1 /\ readLog' = <<>>
    /\ UNCHANGED <<served, cacheVars, unpacked, build, epub>>


(***************************************************************************)
(* Inputs: what the archive of a book can hold                             *)
(***************************************************************************)
MetadataWithTitle == << <<"AUTHOR", ":", " ", "n">>, <<"TITLE", ":", " ", "t", ":", "u", " ">> >>

OnePage(n, lines) == [name |-> PageName(n), lines |-> lines]

\* lines of Articles.lst
A_regular == <<"|", "a", "|", "1">>
A_index == <<"index", "|", "b", "|", "1", " ", "2">>
A_sub == <<"-", "|", "c", "|", "x">>
A_comment == <<" ", "#", " ", "t", "|">>
A_nopipe == <<"t">>
A_unknown == <<"x", "|", "d", "|", "1">>
A_three == <<"|", "e", "|", "1", "-", "2", "-", "3">>
A_open == <<"|", "f", "|", "1", "-">>
A_spaced == <<" ", "|", " ", "g", " ", "|", " ", "2", "-", "1", " ", "#", "x">>
A_twofields == <<"|", "h">>
A_notint == <<"|", "k", "|", "1", " ", "x">>

ArticleLines ==
    {A_regular, A_index, A_sub, A_comment, A_nopipe, A_unknown, A_three, A_open,
     A_spaced, A_twofields, A_notint}

\* lines of a page
P_plain == <<"x">>
P_padded == <<" ", "y", " ">>
P_opening == <<"<", "chapter", " ", "n", ">">>
P_closing == <<"<", "/", "chapter", ">">>
P_opening_cut == <<"<", "chapter", " ", "n">>
P_closing_cut == <<"<", "/", "chapter", ">", ">">>
P_both == <<"<", "chapter", ">", "z", "<", "/", "chapter", ">">>
P_less == <<"v", "<", "w">>

PageLineSet ==
    {P_plain, P_padded, P_opening, P_closing, P_opening_cut, P_closing_cut, P_both}

StdPages == {OnePage(1, <<P_plain>>), OnePage(2, <<P_padded, P_less>>)}

\* the archives of the runs of main
BookGood ==
    [Metadata |-> <<MetadataWithTitle>>,
     Articles |-> << <<A_comment, A_index, A_sub, <<"|", "a", "|", "2", "-", "3">>>> >>,
     Pages |-> {OnePage(1, <<P_plain, P_less>>),
                OnePage(2, <<P_padded, P_opening, P_plain>>),
                OnePage(3, <<P_opening_cut, P_closing, P_plain>>)}]

BookBadLine ==
    [Metadata |-> <<MetadataWithTitle>>,
     Articles |-> << <<A_regular, A_unknown>> >>,
     Pages |-> StdPages]

BookMissingPage ==
    [Metadata |-> <<MetadataWithTitle>>,
     Articles |-> << <<A_regular, <<"index", "|", "b", "|", "2", "-", "3">>, A_regular>> >>,
     Pages |-> StdPages]

BookNoTitle ==
    [Metadata |-> << << <<"AUTHOR", ":", "n">> >> >>,
     Articles |-> << <<A_regular>> >>,
     Pages |-> StdPages]

BookNoArticles ==
    [Metadata |-> <<MetadataWithTitle>>, Articles |-> <<>>, Pages |-> StdPages]

Books == {BookGood, BookBadLine, BookMissingPage, BookNoTitle, BookNoArticles}

\* archives that differ in Articles.lst
ParseBooks ==
    {[Metadata |-> <<MetadataWithTitle>>, Articles |-> <<a>>, Pages |-> StdPages] :
        a \in SeqsUpTo(ArticleLines, MaxArticleLines)}

\* archives of one chapter that differ in the lines of its page
ScanBooks ==
    {[Metadata |-> <<MetadataWithTitle>>,
      Articles |-> << <<t \o <<"|", "a", "|", "1">>>> >>,
      Pages |-> {OnePage(1, l)}] :
        t \in {<<>>, <<"index">>}, l \in SeqsUpTo(PageLineSet, MaxPageLines)}

\* range entries over the pages 1..MaxPage: N, lo-hi from page 1 or 2, and 1-2-3
Num(n) == Decimal(n)

Entries ==
    {Num(n) : n \in 1..MaxPage}
    \cup {Num(lo) \o <<"-">> \o Num(hi) : lo \in 1..2, hi \in 1..MaxPage}
    \cup {<<"1", "-", "2", "-", "3">>}

RECURSIVE JoinWs(_)
JoinWs(es) == IF es = <<>> THEN <<>> ELSE <<" ">> \o Head(es) \o JoinWs(Tail(es))

\* archives of one chapter that differ in its ranges and in the pages present
ReaderBooks ==
    {[Metadata |-> <<MetadataWithTitle>>,
      Articles |-> << <<<<"|", "a", "|">> \o JoinWs(es)>> >>,
      Pages |-> {OnePage(n, <<P_plain>>) : n \in (1..MaxPage) \ missing}] :
        es \in SeqsUpTo(Entries, MaxEntries),
        missing \in {{}, {2}}}

(***************************************************************************)
(* Specifications                                                          *)
(***************************************************************************)
\* main is started on an empty ~/.runepub
Init ==
    /\ served \in Books
    /\ pc = "download"
    /\ run = 1 /\ stages = <<>> /\ returned = {} /\ exc = "none"
    /\ status = 0 /\ requests = 0
    /\ temp_dir = FALSE /\ temp_zip = <<>> /\ downloaded_zip = <<>>
    /\ unpacked = <<>> /\ build = {} /\ epub = <<>>
    /\ BuildLocalsInit

\* main is about to call build_epub, download and unpack have returned
AfterUnpack(S) ==
    /\ served \in S
    /\ pc = "build_epub"
    /\ run = 1 /\ stages = <<"download", "unpack">> /\ returned = {"download", "unpack"}
    /\ exc = "none"
    /\ status = 200 /\ requests = 1
    /\ temp_dir = FALSE /\ temp_zip = <<>>
    /\ downloaded_zip = <<[body |-> served, complete |-> TRUE]>>
    /\ unpacked = <<served>> /\ build = {} /\ epub = <<>>
    /\ BuildLocalsInit

BuildNext ==
    \/ build_epub
    \/ ParseLine
    \/ ParseReturn
    \/ ChapterOpen
    \/ OpenPage
    \/ ProcessLine
    \/ ClosePage
    \/ ChapterClose
    \/ EpubWriter_exit

Next ==
    \/ download
    \/ unpack
    \/ BuildNext
    \/ zip_epub
    \/ main

Spec == Init /\ [][Next]_vars

ParseInit == AfterUnpack(ParseBooks)

ParseSpec == ParseInit /\ [][BuildNext]_vars

ScanInit == AfterUnpack(ScanBooks)

ScanSpec == ScanInit /\ [][BuildNext]_vars

ReaderInit == AfterUnpack(ReaderBooks)

ReaderSpec == ReaderInit /\ [][BuildNext]_vars

(***************************************************************************)
(* What the properties speak of, stated without the program's operators    *)
(***************************************************************************)
\* a line of Articles.lst without its comment and surrounding whitespace
Uncommented(raw) == Strip(SubSeq(raw, 1, Find(raw, "#") - 1))

\* the text before the first "|"
TypeField(line) == Strip(SubSeq(line, 1, Find(line, "|") - 1))

IsRetained(raw) ==
    /\ Uncommented(raw) # <<>>
    /\ Has(Uncommented(raw), "|")
    /\ TypeField(Uncommented(raw)) # <<"-">>

RetainedLines(lines) == SelectSeq(lines, IsRetained)

\* chapterNNNN.xhtml for NNNN < 10
ChapterFileName(k) == <<"chapter", "0", "0", "0", Digit[k + 1], ".xhtml">>

\* the path of a file relative to the build directory
RelPath(path) ==
    CHOOSE r \in {SubSeq(path, k, Len(path)) : k \in 1..(Len(path) + 1)} :
        path = _get_build_dir \o <<"/">> \o r

(***************************************************************************)
(* C1: in every run of main the stages called are a prefix of download,    *)
(* unpack, build_epub, zip_epub, each called at most once and only after   *)
(* the one before it returned normally (so none is called once a stage     *)
(* raised), and <id>.epub changes only in a step of a run in which         *)
(* download, unpack and build_epub all returned normally.                  *)
(***************************************************************************)
C1_StagesInOrder ==
    /\ \E k \in 0..Len(StageOrder) : stages = SubSeq(StageOrder, 1, k)
    /\ \A k \in 2..Len(stages) : stages[k - 1] \in returned
    /\ returned \subseteq {stages[k] : k \in 1..Len(stages)}
    /\ pc = "raised" => stages # <<>> /\ stages[Len(stages)] \notin returned

\* C1: the order of the stages, and the steps that change <id>.epub
C1_Pipeline ==
    /\ []C1_StagesInOrder
    /\ [][epub' # epub =>
            /\ {"download", "unpack", "build_epub"} \subseteq returned
            /\ stages' = Append(stages, "zip_epub")]_vars

\* build_epub raised after download and unpack returned: zip_epub is not called
C1_Witness ==
    /\ pc = "raised"
    /\ stages = <<"download", "unpack", "build_epub">>
    /\ returned = {"download", "unpack"}
    /\ epub = <<>>

(***************************************************************************)
(* C3: after a run in which all four stages completed, <id>.epub holds     *)
(* exactly one entry per file under the build directory, named by the      *)
(* file's path relative to that directory and holding its content; the     *)
(* entries are mimetype (content "application/epub+zip"),                  *)
(* META-INF/container.xml, OEBPS/book.opf, OEBPS/book.ncx and one          *)
(* OEBPS/chapterNNNN.xhtml per retained line of Articles.lst, nothing else.*)
(***************************************************************************)
C3_Archive ==
    pc = "done" =>
        /\ epub # <<>>
        /\ BagToSet(epub[1]) = {[name |-> RelPath(f.path), content |-> f.content] : f \in build}
        /\ \A e \in BagToSet(epub[1]) : CopiesIn(e, epub[1]) = 1
        /\ Cardinality({e.name : e \in BagToSet(epub[1])}) = Cardinality(build)
        /\ {e.name : e \in BagToSet(epub[1])} =
               { <<"mimetype">>,
                 <<"META-INF", "/", "container.xml">>,
                 <<"OEBPS", "/", "book.opf">>,
                 <<"OEBPS", "/", "book.ncx">> }
               \cup { <<"OEBPS", "/">> \o ChapterFileName(k - 1) :
                          k \in 1..Len(RetainedLines(unpacked[1].Articles[1])) }
        /\ \A e \in BagToSet(epub[1]) :
               e.name = <<"mimetype">> => e.content = << <<"application/epub+zip">> >>

\* a later run completed over the archive and the build directory of an earlier one
C3_Witness ==
    /\ pc = "done"
    /\ run > 1
    /\ \E e \in BagToSet(epub[1]) : e.name = <<"OEBPS", "/">> \o ChapterFileName(1)

(***************************************************************************)
(* C4: a run of download that finds no downloaded/txt.zip and gets an      *)
(* answer with a status other than 200 ends by raising, whatever the       *)
(* earlier runs left in the temp directory.                                *)
(***************************************************************************)
C4_Non200Raises ==
    [][(pc = "download" /\ downloaded_zip = <<>> /\ status' \notin {0, 200})
           => exc' # "none"]_vars

(***************************************************************************)
(* C9: downloaded/txt.zip exists only if it holds the complete body of a   *)
(* response with status 200; once it exists, a run of download makes no    *)
(* HTTP request and leaves it unchanged.                                   *)
(***************************************************************************)
C9_CompleteOrAbsent ==
    /\ [](downloaded_zip # <<>> =>
            downloaded_zip[1] = [body |-> served, complete |-> TRUE])
    /\ [][(pc = "download" /\ downloaded_zip # <<>>) =>
            (requests' = requests /\ downloaded_zip' = downloaded_zip)]_vars

(***************************************************************************)
(* More of what the properties speak of                                    *)
(***************************************************************************)
\* the fields of an uncommented line that has two "|" or more
TitleField(line) ==
    LET rest == SubSeq(line, Find(line, "|") + 1, Len(line))
    IN  Strip(SubSeq(rest, 1, Find(rest, "|") - 1))

RangeField(line) ==
    LET rest == SubSeq(line, Find(line, "|") + 1, Len(line))
    IN  SubSeq(rest, Find(rest, "|") + 1, Len(rest))

\* the range entries of a line of Articles.lst, none when it has no range field
EntriesOf(raw) ==
    IF Count(Uncommented(raw), "|") >= 2 THEN SplitWs(RangeField(Uncommented(raw))) ELSE <<>>

EntryLo(e) == SubSeq(e, 1, Find(e, "-") - 1)

EntryHi(e) == SubSeq(e, Find(e, "-") + 1, Len(e))

\* an integer, or integer-integer
IsRangeEntry(e) ==
    \/ IsInt(e)
    \/ Count(e, "-") = 1 /\ IsInt(EntryLo(e)) /\ IsInt(EntryHi(e))

\* NNNN.txt for NNNN < 10
PageFileName(n) == <<"0", "0", "0", Digit[n + 1], ".txt">>

\* the pages of the range [lo, hi], ascending; none when lo > hi
PagesOf(e) ==
    LET lo == IntOf(EntryLo(e))
        hi == IF IsInt(e) THEN lo ELSE IntOf(EntryHi(e))
    IN  [k \in 1..(hi - lo + 1) |-> PageFileName(lo + k - 1)]

IsPrefix(a, b) == Len(a) <= Len(b) /\ a = SubSeq(b, 1, Len(a))

\* the line of Articles.lst a chapter comes from
SourceLine(chapter) == RetainedLines(unpacked[1].Articles[1])[chapter.index + 1]

\* what lies between the head and the tail of a finished chapter file
BodyOf(chapter) ==
    LET c == FileAt(build, ChapterPath(chapter)).content
    IN  SubSeq(c, Len(XhtmlHead) + 1, Len(c) - Len(XhtmlTail))

\* the chapter whose file was finished last
Finished == rune_chapters[ci - 1]

AChapterIsFinished == pc = "chapters" /\ ci > 1

(***************************************************************************)
(* C2: the page files a chapter's reader opens are, in this order, those   *)
(* of its ranges in their listed order, each range [lo, hi] giving lo,     *)
(* lo+1, ..., hi with both ends; an entry N is the range [N, N]; a range   *)
(* with lo > hi gives no page; a page in two ranges is opened twice.       *)
(***************************************************************************)
C2_ReadsInOrder ==
    /\ pc = "read" =>
           LET es == EntriesOf(SourceLine(rune_chapter))
           IN  (\A k \in 1..Len(es) : IsRangeEntry(es[k])) =>
                   /\ IsPrefix(readLog, Concat(Map(PagesOf, es)))
                   /\ page_open => readLog # <<>> /\ readLog[Len(readLog)] = PageFileName(index)
    /\ AChapterIsFinished =>
           LET es == EntriesOf(SourceLine(Finished))
           IN  (\A k \in 1..Len(es) : IsRangeEntry(es[k])) => readLog = Concat(Map(PagesOf, es))

\* a chapter was read whose ranges, lo-hi and then a single number, share a page
C2_Witness ==
    /\ AChapterIsFinished
    /\ Len(Finished.ranges) = 2
    /\ Finished.ranges[1][1] < Finished.ranges[1][2]
    /\ Finished.ranges[2][1] = Finished.ranges[2][2]
    /\ \E j, k \in 1..Len(readLog) : j < k /\ readLog[j] = readLog[k]

(***************************************************************************)
(* C5: if a non-skipped line of Articles.lst has a type field other than   *)
(* empty, "index" or "-", or a range entry that is not an integer or       *)
(* integer-integer, the parser raises before it returns any chapter: no    *)
(* chapter file is written and add_chapter is never called.                *)
(***************************************************************************)
IsBadLine(raw) ==
    /\ IsRetained(raw)
    /\ \/ TypeField(Uncommented(raw)) \notin {<<>>, <<"index">>}
       \/ \E k \in 1..Len(EntriesOf(raw)) : ~IsRangeEntry(EntriesOf(raw)[k])

\* C5: a bad line anywhere in Articles.lst means no chapter is returned, written or added
C5_AllOrNothing ==
    (unpacked # <<>> /\ unpacked[1].Articles # <<>>
        /\ \E k \in 1..Len(unpacked[1].Articles[1]) : IsBadLine(unpacked[1].Articles[1][k]))
    => /\ pc \notin {"chapters", "read"}
       /\ chapters = <<>>
       /\ \A f \in build : f.path \in {MimetypePath, ContainerPath, OpfPath, NcxPath}

(***************************************************************************)
(* C6: the k-th retained line of Articles.lst (0-based, file order) gets   *)
(* index k; lines that are empty once comment and whitespace are removed,  *)
(* lines without "|" and lines of type "-" take no index; the indices      *)
(* returned are 0..n-1 and the ids and file names are pairwise distinct.   *)
(***************************************************************************)
C6_IndexIsRank ==
    /\ pc = "parse" =>
           /\ i = Len(values)
           /\ exc = "none" =>
                  Len(values) = Len(RetainedLines(SubSeq(unpacked[1].Articles[1], 1, line_no - 1)))
    /\ pc \in {"chapters", "read"} =>
           /\ Len(rune_chapters) = Len(RetainedLines(unpacked[1].Articles[1]))
           /\ \A k \in 1..Len(rune_chapters) :
                  /\ rune_chapters[k].index = k - 1
                  /\ rune_chapters[k].title = TitleField(Uncommented(SourceLine(rune_chapters[k])))
                  /\ EPubChapter_filename(rune_chapters[k]) = ChapterFileName(k - 1)
           /\ \A j, k \in 1..Len(rune_chapters) :
                  j # k => /\ EPubChapter_id(rune_chapters[j]) # EPubChapter_id(rune_chapters[k])
                           /\ EPubChapter_filename(rune_chapters[j])
                                  # EPubChapter_filename(rune_chapters[k])

\* two chapters were returned from a file whose first line was skipped
C6_Witness ==
    /\ pc = "chapters"
    /\ Len(rune_chapters) = 2
    /\ ~IsRetained(unpacked[1].Articles[1][1])
    /\ rune_chapters[1].title # rune_chapters[2].title

(***************************************************************************)
(* C7: for a REGULAR chapter with L its stripped and normalised page       *)
(* lines: the scope only moves BEFORE -> WITHIN -> AFTER; with no          *)
(* "<chapter" in L the body is L without the lines holding "</chapter>";   *)
(* otherwise, p being the first line with "<chapter" and q the first line  *)
(* after p with "</chapter>", the body is the lines strictly between p and *)
(* q (to the end of L when there is no q) without those holding "<chapter".*)
(***************************************************************************)
\* the lines the reader yields for the chapter of a one-page archive
LinesRead ==
    LET raw == (CHOOSE p \in unpacked[1].Pages : TRUE).lines
    IN  [k \in 1..Len(raw) |-> Normalise(Strip(raw[k]))]

Opens(L) == {k \in 1..Len(L) : Contains(L[k], OpenTag)}

Min(S) == CHOOSE k \in S : \A j \in S : k <= j

ExpectedBody(L) ==
    IF Opens(L) = {}
    THEN SelectSeq(L, LAMBDA l : ~Contains(l, CloseTag))
    ELSE LET p == Min(Opens(L))
             Q == {k \in (p + 1)..Len(L) : Contains(L[k], CloseTag)}
             q == IF Q = {} THEN Len(L) + 1 ELSE Min(Q)
         IN  SelectSeq(SubSeq(L, p + 1, q - 1), LAMBDA l : ~Contains(l, OpenTag))

\* C7, the body: what a finished REGULAR chapter holds between head and tail
C7_Body ==
    (AChapterIsFinished /\ Finished.type = "REGULAR") => BodyOf(Finished) = ExpectedBody(LinesRead)

\* C7: the body is as stated and the scope only moves BEFORE -> WITHIN -> AFTER
C7_Scope ==
    /\ []C7_Body
    /\ [][(pc = "read" /\ state' # state) =>
            <<state, state'>> \in {<<"BEFORE", "WITHIN">>, <<"WITHIN", "AFTER">>}]_vars

\* the opening line also held a closing tag, text followed, then the closing line
C7_Witness ==
    /\ AChapterIsFinished /\ Finished.type = "REGULAR"
    /\ state = "AFTER"
    /\ BodyOf(Finished) # <<>>
    /\ Contains(LinesRead[Min(Opens(LinesRead))], CloseTag)
    /\ Min(Opens(LinesRead)) > 1

(***************************************************************************)
(* C8: every line of a chapter body has as many "<" as ">"; a page line    *)
(* whose counts differ loses all its "<" and ">" before tags are looked    *)
(* for and before it is written, one whose counts agree is written as it   *)
(* is; an INDEX chapter's body is every normalised line, in reading order. *)
(***************************************************************************)
Balanced(l) == Count(l, "<") = Count(l, ">")

Unbracketed(l) == SelectSeq(l, LAMBDA x : x \notin {"<", ">"})

RawLines == (CHOOSE p \in unpacked[1].Pages : TRUE).lines

Normalised(raw) == IF Balanced(Strip(raw)) THEN Strip(raw) ELSE Unbracketed(Strip(raw))

\* C8: chapter files hold balanced lines only, each the normalised form of a page line
C8_Balanced ==
    /\ \A f \in build :
           f.path \notin {MimetypePath, ContainerPath, OpfPath, NcxPath} =>
               \A k \in 1..Len(f.content) : Balanced(f.content[k])
    /\ AChapterIsFinished =>
           LET body == BodyOf(Finished)
               raw == RawLines
           IN  /\ \A k \in 1..Len(body) : \E j \in 1..Len(raw) : body[k] = Normalised(raw[j])
               /\ Finished.type = "INDEX" =>
                      /\ Len(body) = Len(raw)
                      /\ \A k \in 1..Len(raw) : body[k] = Normalised(raw[k])
               /\ (Finished.type = "REGULAR"
                      /\ \A k \in 1..Len(raw) :
                             Contains(raw[k], OpenTag) => ~Balanced(Strip(raw[k])))
                      => state = "BEFORE"

\* an INDEX chapter with a line that lost its brackets and one that kept them
C8_Witness ==
    /\ AChapterIsFinished /\ Finished.type = "INDEX"
    /\ \E k \in 1..Len(RawLines) : BodyOf(Finished)[k] # Strip(RawLines[k])
    /\ \E k \in 1..Len(RawLines) : Has(BodyOf(Finished)[k], "<")

(***************************************************************************)
(* C10: when the EpubWriter context has been left, normally or by an       *)
(* exception, the manifest items of book.opf (the ncx item aside), the     *)
(* spine itemrefs and the navPoints of book.ncx each list the chapters     *)
(* passed to add_chapter, once each, in the order added; and the file of   *)
(* every chapter passed to add_chapter is written through "</html>".       *)
(***************************************************************************)
ChapterId(k) == <<"chapter", "0", "0", "0", Digit[k + 1]>>

ManifestIds ==
    LET ls == SelectSeq(FileAt(build, OpfPath).content,
                        LAMBDA l : l # <<>> /\ l[1] = "<item id=" /\ l[2] # "ncx")
    IN  [k \in 1..Len(ls) |-> SubSeq(ls[k], 2, Find(ls[k], " href=") - 1)]

SpineIds ==
    LET ls == SelectSeq(FileAt(build, OpfPath).content,
                        LAMBDA l : l # <<>> /\ l[1] = "<itemref idref=")
    IN  [k \in 1..Len(ls) |-> SubSeq(ls[k], 2, Len(ls[k]) - 1)]

NavIds ==
    LET ls == SelectSeq(FileAt(build, NcxPath).content,
                        LAMBDA l : l # <<>> /\ l[1] = "<navPoint id=")
    IN  [k \in 1..Len(ls) |-> SubSeq(ls[k], 2, Find(ls[k], " playOrder=") - 1)]

IsWhole(content) ==
    /\ Len(content) >= Len(XhtmlHead) + Len(XhtmlTail)
    /\ SubSeq(content, 1, Len(XhtmlHead)) = XhtmlHead
    /\ content[Len(content)] = <<"</html>">>
    /\ Cardinality({k \in 1..Len(content) : content[k] = <<"</html>">>}) = 1

\* C10: the chapters added have whole files, and the three lists name exactly them
C10_Listed ==
    /\ \A k \in 1..Len(chapters) :
           /\ Exists(build, ChapterPath(chapters[k]))
           /\ IsWhole(FileAt(build, ChapterPath(chapters[k])).content)
    /\ writer = "exited" =>
           /\ ManifestIds = [k \in 1..Len(chapters) |-> ChapterId(chapters[k].index)]
           /\ SpineIds = ManifestIds
           /\ NavIds = ManifestIds
           /\ \A j, k \in 1..Len(chapters) : j # k => chapters[j] # chapters[k]

\* the context was left by an exception, after one chapter was added and
\* while the file of the next was partly written
C10_Witness ==
    /\ writer = "exited" /\ exc # "none"
    /\ Len(chapters) = 1
    /\ \E f \in build :
           /\ f.path \notin {MimetypePath, ContainerPath, OpfPath, NcxPath}
           /\ ~IsWhole(f.content)
           /\ Len(f.content) > Len(XhtmlHead)

====
